---- MODULE Spec2Model ----
(***************************************************************************)
(* Model of src/analysis1.py: a script that queries a hosted               *)
(* source-control API for one repository and derives a heuristic           *)
(* "merge conflict risk" report.                                           *)
(*                                                                         *)
(* The program is sequential.  The state is the script's position (pc),    *)
(* its environment (token, the repository as the API serves it), the       *)
(* dictionary being built (analysis), the value analyze returned (result), *)
(* what was printed (stdout), the API queries issued so far (queries) and  *)
(* the process exit code.                                                  *)
(*                                                                         *)
(* risk_score is kept in integer hundredths: 0.5 is 50, 0.01 is 1.         *)
(* A file path is the sequence of its segments: "src/a.py" is              *)
(* <<"src", "a.py">>, so that startswith("src/") is computed, not assumed. *)
(* The repository is a snapshot: it does not change during one run.        *)
(***************************************************************************)
EXTENDS Integers, Sequences, FiniteSets

VARIABLES pc, token, fault, repo, client, queries, stdout, exitCode,
          analysis, result, ci, pi, commit_history_size

vars == <<pc, token, fault, repo, client, queries, stdout, exitCode,
          analysis, result, ci, pi, commit_history_size>>

(***************************************************************************)
(* Bounds of the model.                                                    *)
(***************************************************************************)
MaxCommits == 2
MaxPulls == 2
MaxContributors == 1

(***************************************************************************)
(* Constants of the program.                                               *)
(***************************************************************************)
LargePullThreshold == 500
ClosedWindow == 50
HighThreshold == 5000
MediumThreshold == 2500

None == "None"
NoFail == -1
Unbound == -1
Running == -1
RepoName == "owner/name"

(***************************************************************************)
(* Values of the environment.                                              *)
(***************************************************************************)
TokenValues == {None, "", "ghp_token"}
Causes == {"unknown_repository", "bad_credentials", "network_failure"}

SrcA == <<"src", "a.py">>
Readme == <<"README.md">>

SeqsUpTo(S, n) == UNION {[1..k -> S] : k \in 0..n}

Rep(x, n) == [k \in 1..n |-> x]

\* A commit as the API serves it: the files it touched, and how many of them
\* the file listing delivers before it fails (NoFail: it does not fail).
Commit(files, failAt) == [files |-> files, failAt |-> failAt]

FileLists == {<<SrcA>>, <<Readme>>, <<SrcA, Readme>>}

CommitKinds ==
    UNION {{Commit(f, k) : k \in {NoFail} \cup 0..(Len(f) - 1)} : f \in FileLists}

\* An open pull request: its size, and whether its size can be read.
Pull(additions, deletions, readable) ==
    [additions |-> additions, deletions |-> deletions, readable |-> readable]

PullKinds == {Pull(250, 250, TRUE), Pull(500, 1, TRUE), Pull(600, 0, FALSE)}

\* A closed pull request.
Closed(sha, at) == [merge_commit_sha |-> sha, merged_at |-> at]

Conflicted == Closed(None, None)
Merged == Closed("c0ffee", "2024-01-01")
ShaOnly == Closed("c0ffee", None)
MergedOnly == Closed(None, "2024-01-01")

BranchSets == {{"main", "develop"}, {"main"}, {"master"}, {"feature-x"}}

\* What get_contents("src/") does: the directory is missing (the API
\* answers 404 and the client raises), or the client returns a result that
\* has a totalCount ("paginated"), or a plain list that has none ("list").
ContentsKinds == {"missing", "paginated", "list"}

RepoOf(n, commits, open, branches, closed, contents) ==
    [contributors |-> n, commits |-> commits, open |-> open,
     branches |-> branches, closed |-> closed, contents |-> contents]

\* What the identifier resolves to when the resolution fails.
NoRepo == RepoOf(0, <<>>, <<>>, {}, <<>>, "missing")

(***************************************************************************)
(* Dictionaries.                                                           *)
(***************************************************************************)
EmptyDict == [k \in {} |-> 0]

\* a slip: d[k] = 1 instead of d[k] += 1
IncrAssignsOne(d, k) == [x \in (DOMAIN d) \cup {k} |-> IF x = k THEN 1 ELSE d[x]]

\* d[k] += 1 on a defaultdict(int)
Incr(d, k) ==
    [x \in (DOMAIN d) \cup {k} |->
        IF x = k THEN (IF k \in DOMAIN d THEN d[k] ELSE 0) + 1 ELSE d[x]]

\* the inner loop of the commit scan over the first n files of a listing
RECURSIVE TallyFiles(_, _, _)
TallyFiles(d, files, n) ==
    IF n = 0 THEN d ELSE Incr(TallyFiles(d, files, n - 1), files[n])

Delivered(c) == IF c.failAt = NoFail THEN Len(c.files) ELSE c.failAt

\* file.startswith("src/")
StartsWithSrc(path) == Len(path) >= 2 /\ path[1] = "src"

Falsy(t) == t = None \/ t = ""

Out(kind, id) == [kind |-> kind, id |-> id]

\* a slip: the error result also carries the default score and level
ErrorResultWithScore(e) ==
    [error |-> [message |-> "Could not access repository", cause |-> e],
     risk_score |-> 0, risk_level |-> "Low"]

ErrorResult(e) ==
    [error |-> [message |-> "Could not access repository", cause |-> e]]

NewAnalysis(r) ==
    [repository |-> RepoName,
     num_contributors |-> r.contributors,
     num_open_pulls |-> Len(r.open),
     frequently_modified_files |-> EmptyDict,
     recent_merge_conflicts |-> 0,
     large_pull_requests |-> 0,
     branching_strategy_notes |-> "basic",
     risk_score |-> 0,
     risk_level |-> "Low",
     count_of_modified_files |-> 0,
     commit_history_size |-> 0,
     disparity_in_location |-> 0]

\* where the script goes when a for loop has no (more) items
AfterCommits(r) == IF Len(r.open) > 0 THEN "pulls" ELSE "branches"
AfterBuild(r) == IF Len(r.commits) > 0 THEN "commits" ELSE AfterCommits(r)

IsLarge(p) == p.deletions + p.additions > LargePullThreshold

BranchNotes(branches) ==
    IF "main" \in branches /\ "develop" \in branches THEN "gitflow"
    ELSE IF "main" \in branches \/ "master" \in branches THEN "primary"
    ELSE "unidentified"

Min(a, b) == IF a < b THEN a ELSE b

\* a slip: the slice is forgotten
TakeAll(s, n) == s

\* s[:n]
Take(s, n) == SubSeq(s, 1, Min(Len(s), n))

IsConflictCandidate(p) == p.merge_commit_sha = None /\ p.merged_at = None

RECURSIVE CountConflicts(_, _)
CountConflicts(pulls, n) ==
    IF n = 0 THEN 0
    ELSE CountConflicts(pulls, n - 1) + (IF IsConflictCandidate(pulls[n]) THEN 1 ELSE 0)

RECURSIVE CountSrcKeys(_)
CountSrcKeys(keys) ==
    IF keys = {} THEN 0
    ELSE LET k == CHOOSE x \in keys : TRUE
         IN (IF StartsWithSrc(k) THEN 1 ELSE 0) + CountSrcKeys(keys \ {k})

\* a slip: the second, 0.1-weighted count of modified files is left out
ScoreOfWithoutSecondCount(a) ==
    a.risk_score
        + a.num_contributors * 50
        + a.num_open_pulls * 100
        + Cardinality(DOMAIN a.frequently_modified_files) * 20
        + a.recent_merge_conflicts * 300
        + a.large_pull_requests * 200
        + a.commit_history_size * 1

\* the seven += of the scoring, in hundredths
ScoreOf(a) ==
    a.risk_score
        + a.num_contributors * 50
        + a.num_open_pulls * 100
        + Cardinality(DOMAIN a.frequently_modified_files) * 20
        + a.recent_merge_conflicts * 300
        + a.large_pull_requests * 200
        + a.count_of_modified_files * 10
        + a.commit_history_size * 1

\* a slip: >= for >
LevelOfInclusive(score) ==
    IF score >= HighThreshold THEN "High"
    ELSE IF score >= MediumThreshold THEN "Medium"
    ELSE "Low"

LevelOf(score) ==
    IF score > HighThreshold THEN "High"
    ELSE IF score > MediumThreshold THEN "Medium"
    ELSE "Low"

(***************************************************************************)
(* The initial state: the script is about to run in some environment.      *)
(***************************************************************************)
InitWith(Repos) ==
    /\ pc = "start"
    /\ token \in TokenValues
    /\ \/ fault = "none" /\ repo \in Repos
       \/ fault \in Causes /\ repo = NoRepo
    /\ client = FALSE
    /\ queries = {}
    /\ stdout = <<>>
    /\ exitCode = Running
    /\ analysis = EmptyDict
    /\ result = EmptyDict
    /\ ci = 0
    /\ pi = 0
    /\ commit_history_size = Unbound

\* Repositories whose commit history varies.
HistoryRepos ==
    {RepoOf(1, c, o, b, cl, k) :
        c \in SeqsUpTo(CommitKinds, MaxCommits),
        o \in {<<Pull(250, 250, TRUE)>>, <<Pull(500, 1, TRUE), Pull(600, 0, FALSE)>>},
        b \in BranchSets,
        cl \in {<<>>, <<Conflicted, Merged>>},
        k \in ContentsKinds}

\* Repositories whose counters vary, up to the boundaries of the risk levels.
ClosedLists ==
    {Rep(Conflicted, n) : n \in {0, 8, 16, 17}}
        \cup {Rep(Conflicted, ClosedWindow) \o <<Conflicted, Conflicted>>,
              Rep(Merged, ClosedWindow) \o <<Conflicted>>,
              Rep(ShaOnly, ClosedWindow - 1) \o <<Conflicted, Conflicted>>,
              <<MergedOnly, ShaOnly, Conflicted, Merged>>}

ScoreRepos ==
    {RepoOf(n, c, o, {"main", "develop"}, cl, "paginated") :
        n \in 0..MaxContributors,
        c \in {<<>>, <<Commit(<<SrcA>>, NoFail)>>, <<Commit(<<SrcA, Readme>>, NoFail)>>},
        o \in SeqsUpTo(PullKinds, MaxPulls),
        cl \in ClosedLists}

Init == InitWith(HistoryRepos)

InitScore == InitWith(ScoreRepos)

(***************************************************************************)
(* The steps of the script.                                                *)
(***************************************************************************)
\* lines 6-11: read the token; without one print the message and exit()
CheckToken ==
    /\ pc = "start"
    /\ IF Falsy(token)
       THEN /\ stdout' = Append(stdout, Out("token_error", 0))
            /\ exitCode' = 0
            /\ pc' = "exited"
            /\ UNCHANGED client
       ELSE /\ client' = TRUE
            /\ pc' = "main"
            /\ UNCHANGED <<stdout, exitCode>>
    /\ UNCHANGED <<token, fault, repo, queries, analysis, result, ci, pi,
                   commit_history_size>>

\* lines 110-112: prompt for the repository and call the analysis
Prompt ==
    /\ pc = "main"
    /\ stdout' = Append(stdout, Out("prompt", 0))
    /\ pc' = "resolve"
    /\ UNCHANGED <<token, fault, repo, client, queries, exitCode, analysis,
                   result, ci, pi, commit_history_size>>

\* lines 23-26
ResolveRepo ==
    /\ pc = "resolve"
    /\ queries' = queries \cup {"get_repo"}
    /\ IF fault = "none"
       THEN pc' = "build" /\ UNCHANGED result
       ELSE pc' = "print" /\ result' = ErrorResult(fault)
    /\ UNCHANGED <<token, fault, repo, client, stdout, exitCode, analysis,
                   ci, pi, commit_history_size>>

\* lines 28-44
BuildAnalysis ==
    /\ pc = "build"
    /\ queries' = queries \cup {"get_contributors", "get_pulls_open", "get_commits_since"}
    /\ analysis' = NewAnalysis(repo)
    /\ pc' = AfterBuild(repo)
    /\ UNCHANGED <<token, fault, repo, client, stdout, exitCode, result,
                   ci, pi, commit_history_size>>

\* lines 45-50, one commit
ScanCommit ==
    /\ pc = "commits"
    /\ LET c == repo.commits[ci + 1]
       IN /\ queries' = queries \cup {"commit_files"}
          /\ analysis' =
                [analysis EXCEPT !.frequently_modified_files =
                    TallyFiles(@, c.files, Delivered(c))]
          /\ stdout' = IF c.failAt = NoFail THEN stdout
                       ELSE Append(stdout, Out("commit_error", ci + 1))
    /\ ci' = ci + 1
    /\ pc' = IF ci + 1 < Len(repo.commits) THEN "commits" ELSE AfterCommits(repo)
    /\ UNCHANGED <<token, fault, repo, client, exitCode, result, pi,
                   commit_history_size>>

\* lines 53-58, one open pull request
ScanPull ==
    /\ pc = "pulls"
    /\ LET p == repo.open[pi + 1]
       IN IF p.readable
          THEN /\ analysis' =
                    [analysis EXCEPT !.large_pull_requests =
                        IF IsLarge(p) THEN @ + 1 ELSE @]
               /\ UNCHANGED stdout
          ELSE /\ stdout' = Append(stdout, Out("pull_error", pi + 1))
               /\ UNCHANGED analysis
    /\ pi' = pi + 1
    /\ pc' = IF pi + 1 < Len(repo.open) THEN "pulls" ELSE "branches"
    /\ UNCHANGED <<token, fault, repo, client, queries, exitCode, result, ci,
                   commit_history_size>>

\* lines 62-68
ClassifyBranches ==
    /\ pc = "branches"
    /\ queries' = queries \cup {"get_branches"}
    /\ analysis' = [analysis EXCEPT !.branching_strategy_notes = BranchNotes(repo.branches)]
    /\ pc' = "closed"
    /\ UNCHANGED <<token, fault, repo, client, stdout, exitCode, result,
                   ci, pi, commit_history_size>>

\* lines 71-74
ScanClosed ==
    /\ pc = "closed"
    /\ queries' = queries \cup {"get_pulls_closed"}
    /\ LET closed_pulls == Take(repo.closed, ClosedWindow)
       IN analysis' =
            [analysis EXCEPT !.recent_merge_conflicts =
                @ + CountConflicts(closed_pulls, Len(closed_pulls))]
    /\ pc' = "derived"
    /\ UNCHANGED <<token, fault, repo, client, stdout, exitCode, result,
                   ci, pi, commit_history_size>>

\* lines 76-83: the derived counts go to local variables; get_contents("src/")
\* raises for a missing directory, and .totalCount raises on a plain list.
\* Nothing catches either, so the script ends with a traceback.
DerivedCounts ==
    /\ pc = "derived"
    /\ queries' = queries \cup {"get_commits", "get_contributors", "get_pulls_open", "get_contents"}
    /\ analysis' =
         [analysis EXCEPT !.count_of_modified_files =
            Cardinality(DOMAIN analysis.frequently_modified_files)]
    /\ commit_history_size' = Len(repo.commits)
    /\ IF repo.contents = "paginated"
       THEN pc' = "disparity" /\ UNCHANGED exitCode
       ELSE pc' = "crashed" /\ exitCode' = 1
    /\ UNCHANGED <<token, fault, repo, client, stdout, result, ci, pi>>

\* lines 86-88
CountSrc ==
    /\ pc = "disparity"
    /\ analysis' =
         [analysis EXCEPT !.disparity_in_location =
            @ + CountSrcKeys(DOMAIN analysis.frequently_modified_files)]
    /\ pc' = "score"
    /\ UNCHANGED <<token, fault, repo, client, queries, stdout, exitCode,
                   result, ci, pi, commit_history_size>>

\* lines 92-99
Score ==
    /\ pc = "score"
    /\ analysis' = [analysis EXCEPT !.risk_score = ScoreOf(analysis)]
    /\ pc' = "level"
    /\ UNCHANGED <<token, fault, repo, client, queries, stdout, exitCode,
                   result, ci, pi, commit_history_size>>

\* lines 101-108
Level ==
    /\ pc = "level"
    /\ analysis' = [analysis EXCEPT !.risk_level = LevelOf(analysis.risk_score)]
    /\ result' = analysis'
    /\ pc' = "print"
    /\ UNCHANGED <<token, fault, repo, client, queries, stdout, exitCode,
                   ci, pi, commit_history_size>>

\* lines 113-121: the first header is printed, then print(commit_history_size)
\* names a variable the module never binds (it is local to the analysis)
\* and raises NameError; the lines after it never run.
MainPrint ==
    /\ pc = "print"
    /\ stdout' = Append(stdout, Out("header_commit_history_size", 0))
    /\ exitCode' = 1
    /\ pc' = "crashed"
    /\ UNCHANGED <<token, fault, repo, client, queries, analysis, result,
                   ci, pi, commit_history_size>>

Next ==
    \/ CheckToken
    \/ Prompt
    \/ ResolveRepo
    \/ BuildAnalysis
    \/ ScanCommit
    \/ ScanPull
    \/ ClassifyBranches
    \/ ScanClosed
    \/ DerivedCounts
    \/ CountSrc
    \/ Score
    \/ Level
    \/ MainPrint

Spec == Init /\ [][Next]_vars

SpecScore == InitScore /\ [][Next]_vars

(***************************************************************************)
(* Properties.                                                             *)
(***************************************************************************)
\* the call of the analysis is over, by a return or by an exception
AnalyzeOver == pc \in {"print", "crashed"}

\* the analysis returned a report
Returned == AnalyzeOver /\ "risk_score" \in DOMAIN result

\* the analysis dictionary exists and the scan of closed pull requests is done
ClosedScanned ==
    /\ pc \in {"derived", "disparity", "score", "level", "print", "crashed"}
    /\ DOMAIN analysis # {}

Printed(kind) == \E k \in 1..Len(stdout) : stdout[k].kind = kind

LoggedItem(kind, id) == \E k \in 1..Len(stdout) : stdout[k] = Out(kind, id)

\* the positions <<commit, file>> of the file lists of the commits in idx
FilePositions(idx) ==
    UNION {{<<c, k>> : k \in 1..Len(repo.commits[c].files)} : c \in idx}

PathsOf(idx) == {repo.commits[q[1]].files[q[2]] : q \in FilePositions(idx)}

Occurrences(path, idx) ==
    Cardinality({q \in FilePositions(idx) : repo.commits[q[1]].files[q[2]] = path})

WellFormed(idx) == \A c \in idx : repo.commits[c].failAt = NoFail

AllCommits == 1..Len(repo.commits)

\* C1: in every returned report, risk_score (in hundredths) is
\* 50*num_contributors + 100*num_open_pulls + 30*count_of_modified_files
\* + 300*recent_merge_conflicts + 200*large_pull_requests
\* + commit_history_size, over the fields of that report.
C1_ScoreFormula ==
    Returned =>
        result.risk_score =
            50 * result.num_contributors
                + 100 * result.num_open_pulls
                + 30 * result.count_of_modified_files
                + 300 * result.recent_merge_conflicts
                + 200 * result.large_pull_requests
                + result.commit_history_size

C1_Witness ==
    /\ Returned
    /\ result.num_contributors > 0
    /\ result.num_open_pulls > 0
    /\ result.count_of_modified_files > 0
    /\ result.recent_merge_conflicts > 0
    /\ result.large_pull_requests > 0

\* C2: in every returned report, commit_history_size is the total number of
\* commits of the repository, and risk_score contains 0.01 times that number.
C2_HistorySizeReported ==
    Returned =>
        /\ result.commit_history_size = Len(repo.commits)
        /\ result.risk_score =
                50 * result.num_contributors
                    + 100 * result.num_open_pulls
                    + 30 * result.count_of_modified_files
                    + 300 * result.recent_merge_conflicts
                    + 200 * result.large_pull_requests
                    + Len(repo.commits)

\* C3: in every returned report, risk_level is High when risk_score > 50,
\* Medium when 25 < risk_score <= 50 and Low when risk_score <= 25.
C3_LevelBoundaries ==
    Returned =>
        /\ result.risk_score > 5000 => result.risk_level = "High"
        /\ (result.risk_score > 2500 /\ result.risk_score <= 5000)
                => result.risk_level = "Medium"
        /\ result.risk_score <= 2500 => result.risk_level = "Low"

C3_Witness ==
    Returned /\ result.risk_score = 2500 /\ result.risk_level = "Low"

\* C4: a run in which the analysis returned its report prints the standalone
\* values and the report, and ends with exit code 0.
C4_ReportPrinted ==
    (pc = "crashed" /\ Returned) =>
        /\ exitCode = 0
        /\ Printed("commit_history_size")
        /\ Printed("num_contributors")
        /\ Printed("num_open_pulls")
        /\ Printed("report")

\* C5: when resolving the repository fails, the analysis returns an error
\* result that carries the cause and has no risk_score and no risk_level,
\* and the run issues no API query other than the resolution.
C5_ResolveFailure ==
    /\ (fault # "none" /\ AnalyzeOver) =>
            /\ DOMAIN result = {"error"}
            /\ result.error.cause = fault
            /\ queries = {"get_repo"}
            /\ analysis = EmptyDict
    /\ "error" \in DOMAIN result => fault # "none"

C5_Witness ==
    /\ fault = "bad_credentials"
    /\ pc = "print"
    /\ "error" \in DOMAIN result
    /\ "get_repo" \in queries

\* C6: at every point of the two scans, a failed commit or pull request is
\* logged with its identifier and has added nothing: the tally of files is
\* that of the commits processed without a failure, and large_pull_requests
\* counts the readable large pull requests processed.
C6_FailedItemAddsNothing ==
    DOMAIN analysis # {} =>
        LET good == {c \in 1..ci : repo.commits[c].failAt = NoFail}
            bad == {c \in 1..ci : repo.commits[c].failAt # NoFail}
        IN /\ DOMAIN analysis.frequently_modified_files = PathsOf(good)
           /\ \A p \in PathsOf(good) :
                analysis.frequently_modified_files[p] = Occurrences(p, good)
           /\ \A c \in bad : LoggedItem("commit_error", c)
           /\ analysis.large_pull_requests =
                Cardinality({k \in 1..pi : repo.open[k].readable
                                /\ repo.open[k].additions + repo.open[k].deletions > 500})
           /\ \A k \in 1..pi : ~repo.open[k].readable => LoggedItem("pull_error", k)
           /\ ClosedScanned => (ci = Len(repo.commits) /\ pi = Len(repo.open))

\* C7: when every commit has a well-formed file list, the returned report's
\* count_of_modified_files is the number of distinct paths touched by the
\* commits and the number of keys of frequently_modified_files, and each
\* key's value is the number of occurrences of that path in the file lists.
C7_DistinctPaths ==
    (Returned /\ WellFormed(AllCommits)) =>
        /\ result.count_of_modified_files = Cardinality(PathsOf(AllCommits))
        /\ result.count_of_modified_files =
                Cardinality(DOMAIN result.frequently_modified_files)
        /\ DOMAIN result.frequently_modified_files = PathsOf(AllCommits)
        /\ \A p \in PathsOf(AllCommits) :
                result.frequently_modified_files[p] = Occurrences(p, AllCommits)

C7_Witness ==
    /\ Returned
    /\ WellFormed(AllCommits)
    /\ Len(repo.commits) >= 2
    /\ result.count_of_modified_files = 2
    /\ \E p \in DOMAIN result.frequently_modified_files :
            result.frequently_modified_files[p] >= 2

\* C8: for every repository that resolves, with or without a src/ directory,
\* the analysis returns a report whose disparity_in_location is the number
\* of keys of frequently_modified_files that begin with src/, which is at
\* most count_of_modified_files.
C8_DisparityForEveryRepository ==
    (AnalyzeOver /\ fault = "none") =>
        /\ Returned
        /\ result.disparity_in_location =
                Cardinality({p \in DOMAIN result.frequently_modified_files :
                                Len(p) >= 2 /\ p[1] = "src"})
        /\ result.disparity_in_location <= result.count_of_modified_files

\* C9: once the closed pull requests are scanned, recent_merge_conflicts is
\* the number of pull requests among the first 50 closed ones that have
\* neither a merge_commit_sha nor a merged_at, and so is at most 50.
C9_RecentConflicts ==
    ClosedScanned =>
        /\ analysis.recent_merge_conflicts =
                Cardinality({k \in 1..Len(repo.closed) :
                                /\ k <= 50
                                /\ repo.closed[k].merge_commit_sha = None
                                /\ repo.closed[k].merged_at = None})
        /\ analysis.recent_merge_conflicts <= 50

C9_Witness ==
    /\ Returned
    /\ Len(repo.closed) > 50
    /\ repo.closed[51] = Conflicted
    /\ repo.closed[50] = Conflicted
    /\ repo.closed[1] = ShaOnly
    /\ result.recent_merge_conflicts = 1

\* C10: without a token the script prints its message and ends with a
\* non-zero exit code, having constructed no client, issued no query,
\* prompted for nothing and printed no report.
C10_MissingTokenIsFatal ==
    (Falsy(token) /\ pc # "start") =>
        /\ pc = "exited"
        /\ exitCode # 0
        /\ stdout = <<Out("token_error", 0)>>
        /\ ~client
        /\ queries = {}

====
